---- MODULE Spec2Model ----
(***************************************************************************)
(* Custom autograd functions (MyReLU, MatrixSum, MySub,                    *)
(* NonDiffCrossEntropy, CustomLoss) and the MLflow-tracked training loop   *)
(* of the torch-recipies notebooks.                                        *)
(*                                                                         *)
(* Numbers are exact rationals n/d extended with the IEEE-754 special      *)
(* values +inf, -inf and nan, so that a division by zero is an outcome of  *)
(* the model and not an error of it.  A tensor is a shape and its          *)
(* row-major data.                                                         *)
(***************************************************************************)
EXTENDS Integers, Sequences, FiniteSets, TLC

VARIABLES
    invs,      \* invocation slot -> the call made through apply (or the empty slot)
    ctxs,      \* invocation slot -> the ctx object of that call
    gc,        \* the last comparison made by gradcheck
    pc,        \* training run: position in the epoch loop
    epoch,     \* training run: t of "for t in range(epochs)"
    batch,     \* training run: batch index of train's enumerate
    logged     \* training run: metric name -> steps passed to mlflow.log_metric

vars == <<invs, ctxs, gc, pc, epoch, batch, logged>>

----------------------------------------------------------------------------
(* Scalars: <<n, d>> is the rational n/d in lowest terms (d > 0); d = 0   *)
(* marks the IEEE special values +inf <<1, 0>>, -inf <<-1, 0>>, nan <<0, 0>> *)

AbsInt(x) == IF x < 0 THEN -x ELSE x

RECURSIVE GCD(_, _)
GCD(a, b) == IF b = 0 THEN a ELSE GCD(b, a % b)

Fin(n, d) ==
    LET g == GCD(AbsInt(n), d)
    IN <<n \div g, d \div g>>

R(n) == <<n, 1>>
PosInf == <<1, 0>>
NegInf == <<-1, 0>>
NaN == <<0, 0>>

IsFinite(a) == a[2] # 0
IsNaN(a) == a = NaN

\* -1, 0 or 1; an infinity carries its sign in n
Sign(a) == IF a[1] < 0 THEN -1 ELSE IF a[1] > 0 THEN 1 ELSE 0

Signed(s) == IF s < 0 THEN NegInf ELSE PosInf

RNeg(a) == <<-a[1], a[2]>>

RAdd(a, b) ==
    IF IsNaN(a) \/ IsNaN(b) THEN NaN
    ELSE IF ~IsFinite(a) /\ ~IsFinite(b) THEN (IF a = b THEN a ELSE NaN)
    ELSE IF ~IsFinite(a) THEN a
    ELSE IF ~IsFinite(b) THEN b
    ELSE LET g == GCD(a[2], b[2])
         IN Fin(a[1] * (b[2] \div g) + b[1] * (a[2] \div g), (a[2] \div g) * b[2])

RSub(a, b) == RAdd(a, RNeg(b))

RMul(a, b) ==
    IF IsNaN(a) \/ IsNaN(b) THEN NaN
    ELSE IF ~IsFinite(a) \/ ~IsFinite(b)
         THEN (IF Sign(a) = 0 \/ Sign(b) = 0 THEN NaN ELSE Signed(Sign(a) * Sign(b)))
    ELSE IF a[1] = 0 \/ b[1] = 0 THEN R(0)
    ELSE LET g1 == GCD(AbsInt(a[1]), b[2])
             g2 == GCD(AbsInt(b[1]), a[2])
         IN <<(a[1] \div g1) * (b[1] \div g2), (a[2] \div g2) * (b[2] \div g1)>>

\* IEEE division: x/0 is +-inf, 0/0 is nan (the zero divisor is +0)
RDiv(a, b) ==
    IF IsNaN(a) \/ IsNaN(b) THEN NaN
    ELSE IF ~IsFinite(a) /\ ~IsFinite(b) THEN NaN
    ELSE IF ~IsFinite(a) THEN Signed(Sign(a) * (IF Sign(b) < 0 THEN -1 ELSE 1))
    ELSE IF ~IsFinite(b) THEN R(0)
    ELSE IF b[1] = 0 THEN (IF a[1] = 0 THEN NaN ELSE Signed(Sign(a)))
    ELSE RMul(a, <<IF b[1] < 0 THEN -b[2] ELSE b[2], AbsInt(b[1])>>)

\* r1/d1 < r2/d2 for 0 <= r < d, by continued fractions (no cross product)
RECURSIVE FracLess(_, _, _, _)
FracLess(r1, d1, r2, d2) ==
    IF r2 = 0 THEN FALSE
    ELSE IF r1 = 0 THEN TRUE
    ELSE IF (d2 \div r2) # (d1 \div r1) THEN (d2 \div r2) < (d1 \div r1)
    ELSE FracLess(d2 % r2, r2, d1 % r1, r1)

\* a < b; every comparison with nan is false
RLess(a, b) ==
    IF IsNaN(a) \/ IsNaN(b) THEN FALSE
    ELSE IF a = PosInf \/ b = NegInf THEN FALSE
    ELSE IF a = NegInf \/ b = PosInf THEN TRUE
    ELSE IF (a[1] \div a[2]) # (b[1] \div b[2]) THEN (a[1] \div a[2]) < (b[1] \div b[2])
    ELSE FracLess(a[1] % a[2], a[2], b[1] % b[2], b[2])

RLeq(a, b) == RLess(a, b) \/ (~IsNaN(a) /\ a = b)

RAbs(a) == IF Sign(a) < 0 THEN RNeg(a) ELSE a

RMax(a, b) == IF RLess(a, b) THEN b ELSE a

\* clip / clamp: max(lo, min(x, hi)); nan stays nan
RClip(x, lo, hi) ==
    IF IsNaN(x) THEN NaN
    ELSE IF RLess(x, lo) THEN lo
    ELSE IF RLess(hi, x) THEN hi
    ELSE x

----------------------------------------------------------------------------
(* Tensors: shape and row-major data, with broadcasting *)

RECURSIVE Numel(_)
Numel(s) == IF s = <<>> THEN 1 ELSE Head(s) * Numel(Tail(s))

T(s, xs) == [shape |-> s, data |-> xs]

Scalar(v) == T(<<>>, <<v>>)

Fill(s, v) == T(s, [i \in 1..Numel(s) |-> v])

PadShape(s, L) ==
    [i \in 1..L |-> IF i <= L - Len(s) THEN 1 ELSE s[i - (L - Len(s))]]

MaxInt(a, b) == IF a < b THEN b ELSE a

Compatible(s1, s2) ==
    LET L == MaxInt(Len(s1), Len(s2))
        p1 == PadShape(s1, L)
        p2 == PadShape(s2, L)
    IN \A i \in 1..L : p1[i] = p2[i] \/ p1[i] = 1 \/ p2[i] = 1

BroadcastShape(s1, s2) ==
    LET L == MaxInt(Len(s1), Len(s2))
        p1 == PadShape(s1, L)
        p2 == PadShape(s2, L)
    IN [i \in 1..L |-> IF p1[i] = 1 THEN p2[i] ELSE p1[i]]

Stride(s, i) == Numel(SubSeq(s, i + 1, Len(s)))

Coord(k0, s, i) == (k0 \div Stride(s, i)) % s[i]

RECURSIVE BOffset(_, _, _, _)
BOffset(k0, outS, p, i) ==
    IF i > Len(outS) THEN 0
    ELSE (IF p[i] = 1 THEN 0 ELSE Coord(k0, outS, i) * Stride(p, i))
         + BOffset(k0, outS, p, i + 1)

\* the element of a tensor of shape inS that output element k (1-based) reads
BIndex(k, outS, inS) == 1 + BOffset(k - 1, outS, PadShape(inS, Len(outS)), 1)

RBin(op, x, y) ==
    CASE op = "add" -> RAdd(x, y)
      [] op = "sub" -> RSub(x, y)
      [] op = "mul" -> RMul(x, y)
      [] op = "div" -> RDiv(x, y)

TBin(op, a, b) ==
    IF a.shape = b.shape
    THEN T(a.shape, [k \in 1..Len(a.data) |-> RBin(op, a.data[k], b.data[k])])
    ELSE LET s == BroadcastShape(a.shape, b.shape)
         IN T(s, [k \in 1..Numel(s) |->
                    RBin(op, a.data[BIndex(k, s, a.shape)], b.data[BIndex(k, s, b.shape)])])

TNeg(a) == T(a.shape, [k \in 1..Len(a.data) |-> RNeg(a.data[k])])

OnesLike(a) == Fill(a.shape, R(1))

RECURSIVE SumSeq(_)
SumSeq(xs) == IF xs = <<>> THEN R(0) ELSE RAdd(Head(xs), SumSeq(Tail(xs)))

TSum(a) == Scalar(SumSeq(a.data))

TAllFinite(a) == \A k \in 1..Len(a.data) : IsFinite(a.data[k])

----------------------------------------------------------------------------
(* The ctx object of one apply call *)

None == [none |-> TRUE]

EmptyCtx == [owner |-> 0, saved |-> <<>>, constant |-> <<>>]

\* ctx.save_for_backward(*tensors)
SaveForBackward(ctx, tensors) == [ctx EXCEPT !.saved = tensors]

SavedKey(j) == IF j = 1 THEN "saved_tensors[0]" ELSE "saved_tensors[1]"

\* the names under which a ctx holds state
CtxKeys(ctx) ==
    {SavedKey(j) : j \in 1..Len(ctx.saved)}
        \cup (IF ctx.constant = <<>> THEN {} ELSE {"constant"})

\* backward asked ctx for state that forward did not put there
MissingSavedState == [err |-> "MissingSavedState", grads |-> <<>>, reads |-> {}]

Returned(grads, reads) == [err |-> "none", grads |-> grads, reads |-> reads]

----------------------------------------------------------------------------
(* MyReLU *)

ClampMin0(x) ==
    T(x.shape, [k \in 1..Len(x.data) |-> IF RLess(x.data[k], R(0)) THEN R(0) ELSE x.data[k]])

MyReLUForward(ctx, inputs) ==
    [ctx |-> SaveForBackward(ctx, <<inputs>>), out |-> ClampMin0(inputs)]

MyReLUBackward(ctx, grad_output) ==
    IF Len(ctx.saved) # 1 THEN MissingSavedState
    ELSE LET inputs == ctx.saved[1]
             grad_input ==
                 T(grad_output.shape,
                   [k \in 1..Len(grad_output.data) |->
                      IF RLess(inputs.data[k], R(0)) THEN R(0) ELSE grad_output.data[k]])
         IN Returned(<<grad_input>>, {SavedKey(1)})

----------------------------------------------------------------------------
(* MatrixSum *)

MatrixSumForward(ctx, inputs) ==
    [ctx |-> SaveForBackward(ctx, <<inputs>>), out |-> TSum(inputs)]

\* mutant: the input itself taken for the derivative of the sum
MatrixSumBackward_TimesInput(ctx, grad_outputs) ==
    IF Len(ctx.saved) # 1 THEN MissingSavedState
    ELSE LET inputs == ctx.saved[1]
         IN Returned(<<TBin("mul", grad_outputs, inputs)>>, {SavedKey(1)})

MatrixSumBackward(ctx, grad_outputs) ==
    IF Len(ctx.saved) # 1 THEN MissingSavedState
    ELSE LET inputs == ctx.saved[1]
             dsumdx == OnesLike(inputs)
             dinputs == TBin("mul", grad_outputs, dsumdx)
         IN Returned(<<dinputs>>, {SavedKey(1)})

----------------------------------------------------------------------------
(* MySub: forward takes no ctx, setup_context fills it *)

MySubForward(inp, other, alpha) == TBin("sub", inp, TBin("mul", alpha, other))

\* mutant: alpha is not stashed on ctx
MySubSetupContext_NoConstant(ctx, inp, output) ==
    SaveForBackward(ctx, <<inp[1], inp[2]>>)

MySubSetupContext(ctx, inp, output) ==
    [SaveForBackward(ctx, <<inp[1], inp[2]>>) EXCEPT !.constant = <<inp[3]>>]

\* mutant: the sign of alpha is lost
MySubBackward_PlusAlpha(ctx, grad_out) ==
    IF Len(ctx.saved) # 2 \/ ctx.constant = <<>> THEN MissingSavedState
    ELSE LET inputs == ctx.saved[1]
             other == ctx.saved[2]
             alpha == ctx.constant[1]
             dinputs == TBin("mul", grad_out, OnesLike(inputs))
             dother == TBin("mul", TBin("mul", grad_out, alpha), OnesLike(other))
         IN Returned(<<dinputs, dother, None>>,
                     {SavedKey(1), SavedKey(2), "constant"})

\* mutant: no gradient is returned for other
MySubBackward_NoOther(ctx, grad_out) ==
    IF Len(ctx.saved) # 2 \/ ctx.constant = <<>> THEN MissingSavedState
    ELSE LET inputs == ctx.saved[1]
             other == ctx.saved[2]
             alpha == ctx.constant[1]
             dinputs == TBin("mul", grad_out, OnesLike(inputs))
         IN Returned(<<dinputs, None, None>>,
                     {SavedKey(1), SavedKey(2), "constant"})

MySubBackward(ctx, grad_out) ==
    IF Len(ctx.saved) # 2 \/ ctx.constant = <<>> THEN MissingSavedState
    ELSE LET inputs == ctx.saved[1]
             other == ctx.saved[2]
             alpha == ctx.constant[1]
             dinputs == TBin("mul", grad_out, OnesLike(inputs))
             dother == TBin("mul", TBin("mul", grad_out, TNeg(alpha)), OnesLike(other))
         IN Returned(<<dinputs, dother, None>>,
                     {SavedKey(1), SavedKey(2), "constant"})

----------------------------------------------------------------------------
(* Cross entropy: NonDiffCrossEntropy (numpy forward) and CustomLoss *)

\* 1e-7 and 1 - 1e-7, the bounds given to np.clip and torch.clamp
ClipLo == Fin(1, 10000000)
ClipHi == Fin(9999999, 10000000)

TClip(x, lo, hi) == T(x.shape, [k \in 1..Len(x.data) |-> RClip(x.data[k], lo, hi)])

\* A loss value is kept as the sum of its terms c * ln(a): the logarithm is not
\* a rational function, so ln stays symbolic and only its argument is computed.
LnFinite(a) == IsFinite(a) /\ RLess(R(0), a)

LossFinite(loss) ==
    \A k \in 1..Len(loss.terms) : IsFinite(loss.terms[k].c) /\ LnFinite(loss.terms[k].a)

\* sum(-y_true * log(y_pred_clipped)) / N
SumNegLog(y_true, clipped, N) ==
    LET s == BroadcastShape(y_true.shape, clipped.shape)
    IN [shape |-> <<>>,
        terms |-> [k \in 1..Numel(s) |->
                     [c |-> RDiv(RNeg(y_true.data[BIndex(k, s, y_true.shape)]), R(N)),
                      a |-> clipped.data[BIndex(k, s, clipped.shape)]]]]

nondiff_crossentropyloss(y_true, y_pred) ==
    LET y_pred_numpy_clipped == TClip(y_pred, ClipLo, ClipHi)
    IN SumNegLog(y_true, y_pred_numpy_clipped, y_true.shape[1])

NonDiffCrossEntropyForward(ctx, y_true, y_pred) ==
    [ctx |-> SaveForBackward(ctx, <<y_true, y_pred>>),
     out |-> nondiff_crossentropyloss(y_true, y_pred)]

\* mutant: the gradients are returned in CustomLoss's order
NonDiffCrossEntropyBackward_Swapped(ctx, grad_output) ==
    IF Len(ctx.saved) # 2 THEN MissingSavedState
    ELSE LET y_true == ctx.saved[1]
             y_pred == ctx.saved[2]
             N == y_true.shape[1]
             dy_pred == TBin("div", TBin("div", TNeg(y_true), y_pred), Scalar(R(N)))
         IN Returned(<<TBin("mul", dy_pred, grad_output), None>>,
                     {SavedKey(1), SavedKey(2)})

NonDiffCrossEntropyBackward(ctx, grad_output) ==
    IF Len(ctx.saved) # 2 THEN MissingSavedState
    ELSE LET y_true == ctx.saved[1]
             y_pred == ctx.saved[2]
             N == y_true.shape[1]
             dy_pred == TBin("div", TBin("div", TNeg(y_true), y_pred), Scalar(R(N)))
         IN Returned(<<None, TBin("mul", dy_pred, grad_output)>>,
                     {SavedKey(1), SavedKey(2)})

CustomLossForward(ctx, y_pred, y_true) ==
    LET y_pred_clipped == TClip(y_pred, ClipLo, ClipHi)
    IN [ctx |-> SaveForBackward(ctx, <<y_pred, y_true>>),
        out |-> SumNegLog(y_true, y_pred_clipped, y_true.shape[1])]

\* mutant: the mean over the batch is left out of the derivative
CustomLossBackward_NoMean(ctx, grad_output) ==
    IF Len(ctx.saved) # 2 THEN MissingSavedState
    ELSE LET y_pred == ctx.saved[1]
             y_true == ctx.saved[2]
             dy_pred == TBin("div", TNeg(y_true), y_pred)
         IN Returned(<<TBin("mul", grad_output, dy_pred), None>>,
                     {SavedKey(1), SavedKey(2)})

CustomLossBackward(ctx, grad_output) ==
    IF Len(ctx.saved) # 2 THEN MissingSavedState
    ELSE LET y_pred == ctx.saved[1]
             y_true == ctx.saved[2]
             N == y_true.shape[1]
             dy_pred == TBin("div", TBin("div", TNeg(y_true), y_pred), Scalar(R(N)))
         IN Returned(<<TBin("mul", grad_output, dy_pred), None>>,
                     {SavedKey(1), SavedKey(2)})

----------------------------------------------------------------------------
(* Inputs of the model *)

\* invocations that may be outstanding (forward done, backward not yet) at once
MaxOutstanding == 2
\* torch.rand(2, 3, ...): the size of the test tensors
Rows == 2
Cols == 3

Slots == 1..MaxOutstanding

Vec == <<Cols>>
Mat == <<Rows, Cols>>

\* the tensor of shape s whose entries run through seq from position seed
Pattern(s, seq, seed) ==
    T(s, [k \in 1..Numel(s) |-> seq[((seed + k - 1) % Len(seq)) + 1]])

ElemSeq == <<R(-1), R(0), Fin(1, 2), R(2)>>
LabelSeq == <<R(1), R(0), R(1)>>
\* predictions: ordinary entries, entries equal to 0, one below the clip bound
PredSeq == <<Fin(1, 2), R(0), Fin(1, 20000000), R(0), Fin(1, 4), Fin(1, 4)>>
GradSeq == <<R(-2), Fin(1, 2), R(0)>>

Inputs == {Pattern(s, ElemSeq, 0) : s \in {Vec, Mat}}
Alphas == {Scalar(R(2)), Scalar(R(-1))}
Labels == {Pattern(Mat, LabelSeq, 0)}
Preds == {Pattern(Mat, PredSeq, 0), Fill(Mat, Fin(1, 4))}

\* upstream gradients, shaped like the forward output
GradOutputs(s) ==
    IF s = <<>> THEN {Scalar(R(1)), Scalar(R(-2))} ELSE {Pattern(s, GradSeq, 0)}

----------------------------------------------------------------------------
(* apply: forward through a fresh ctx; later the engine calls backward once *)

Free == [st |-> "free", op |-> "", args |-> <<>>, rg |-> <<>>,
         out |-> None, g |-> None, res |-> None]

NewCtx(i) == [EmptyCtx EXCEPT !.owner = i]

Called(i, op, args, rg, f) ==
    /\ invs' = [invs EXCEPT ![i] = [st |-> "saved", op |-> op, args |-> args, rg |-> rg,
                                    out |-> f.out, g |-> None, res |-> None]]
    /\ ctxs' = [ctxs EXCEPT ![i] = f.ctx]
    /\ UNCHANGED <<gc, pc, epoch, batch, logged>>

ApplyMyReLU ==
    \E i \in Slots : invs[i].st = "free" /\
    \E x \in {Pattern(Mat, ElemSeq, 0)}, r \in BOOLEAN :
        Called(i, "MyReLU", <<x>>, <<r>>, MyReLUForward(NewCtx(i), x))

ApplyMatrixSum ==
    \E i \in Slots : invs[i].st = "free" /\
    \E x \in Inputs, r \in {TRUE} :
        Called(i, "MatrixSum", <<x>>, <<r>>, MatrixSumForward(NewCtx(i), x))

ApplyMySub ==
    \E i \in Slots : invs[i].st = "free" /\
    \E a \in {Pattern(Mat, ElemSeq, 0)}, b \in Inputs, alpha \in Alphas,
       ra \in {TRUE}, rb \in BOOLEAN :
        /\ Compatible(a.shape, b.shape)
        /\ LET output == MySubForward(a, b, alpha)
           IN Called(i, "MySub", <<a, b, alpha>>, <<ra, rb, FALSE>>,
                     [ctx |-> MySubSetupContext(NewCtx(i), <<a, b, alpha>>, output),
                      out |-> output])

ApplyNonDiffCrossEntropy ==
    \E i \in Slots : invs[i].st = "free" /\
    \E y_true \in Labels, y_pred \in Preds, rt \in {FALSE} :
        Called(i, "NonDiffCrossEntropy", <<y_true, y_pred>>, <<rt, TRUE>>,
               NonDiffCrossEntropyForward(NewCtx(i), y_true, y_pred))

ApplyCustomLoss ==
    \E i \in Slots : invs[i].st = "free" /\
    \E y_pred \in Preds, y_true \in Labels, rt \in {FALSE} :
        Called(i, "CustomLoss", <<y_pred, y_true>>, <<TRUE, rt>>,
               CustomLossForward(NewCtx(i), y_pred, y_true))

BackwardOf(op, ctx, g) ==
    CASE op = "MyReLU" -> MyReLUBackward(ctx, g)
      [] op = "MatrixSum" -> MatrixSumBackward(ctx, g)
      [] op = "MySub" -> MySubBackward(ctx, g)
      [] op = "NonDiffCrossEntropy" -> NonDiffCrossEntropyBackward(ctx, g)
      [] op = "CustomLoss" -> CustomLossBackward(ctx, g)

\* the engine runs backward only when some input requires a gradient
Backward ==
    \E i \in Slots :
        /\ invs[i].st = "saved"
        /\ \E j \in 1..Len(invs[i].rg) : invs[i].rg[j]
        /\ \E g \in GradOutputs(invs[i].out.shape) :
              invs' = [invs EXCEPT ![i].st = "done", ![i].g = g,
                                   ![i].res = BackwardOf(invs[i].op, ctxs[i], g)]
        /\ UNCHANGED <<ctxs, gc, pc, epoch, batch, logged>>

\* the call's ctx is discarded
Release ==
    \E i \in Slots :
        /\ invs[i].st \in {"saved", "done"}
        /\ invs' = [invs EXCEPT ![i] = Free]
        /\ ctxs' = [ctxs EXCEPT ![i] = EmptyCtx]
        /\ UNCHANGED <<gc, pc, epoch, batch, logged>>

NoCheck == [op |-> "", x |-> <<>>, slot |-> 0, i |-> 0, j |-> 0, ni |-> 0, nj |-> 0,
            analytic |-> R(0), lo |-> R(0), hi |-> R(0)]

Init ==
    /\ invs = [i \in Slots |-> Free]
    /\ ctxs = [i \in Slots |-> EmptyCtx]
    /\ gc = NoCheck
    /\ pc = "start"
    /\ epoch = 0
    /\ batch = 0
    /\ logged = [m \in {"Loss", "Accuracy", "eval_loss", "eval_accuracy"} |-> <<>>]

Next ==
    \/ ApplyMyReLU
    \/ ApplyMatrixSum
    \/ ApplyMySub
    \/ ApplyNonDiffCrossEntropy
    \/ ApplyCustomLoss
    \/ Backward
    \/ Release

Spec == Init /\ [][Next]_vars

Done(i) == invs[i].st = "done"

----------------------------------------------------------------------------
(* Properties of the custom operations *)

Ok(i) == Done(i) /\ invs[i].res.err = "none"

IsCrossEntropy(op) == op \in {"NonDiffCrossEntropy", "CustomLoss"}

\* position of y_pred and of y_true among forward's arguments
PredSlot(op) == IF op = "NonDiffCrossEntropy" THEN 2 ELSE 1
TrueSlot(op) == IF op = "NonDiffCrossEntropy" THEN 1 ELSE 2

\* C1: backward returns one value per forward argument (1, 1, 3, 2, 2 for
\* MyReLU, MatrixSum, MySub, NonDiffCrossEntropy, CustomLoss), in forward's
\* order: NonDiffCrossEntropy returns (None, grad_y_pred), CustomLoss returns
\* (grad_y_pred, None).
C1_BackwardArity ==
    \A i \in Slots : Done(i) =>
        LET v == invs[i]
            n == Len(v.res.grads)
        IN /\ v.res.err = "none"
           /\ n = Len(v.args)
           /\ v.op \in {"MyReLU", "MatrixSum"} => n = 1
           /\ v.op = "MySub" => n = 3
           /\ IsCrossEntropy(v.op) => n = 2
           /\ v.op = "NonDiffCrossEntropy" =>
                 v.res.grads[1] = None /\ v.res.grads[2] # None
                    /\ v.res.grads[2].shape = v.args[2].shape
           /\ v.op = "CustomLoss" =>
                 v.res.grads[1] # None /\ v.res.grads[2] = None
                    /\ v.res.grads[1].shape = v.args[1].shape

C1_Witness ==
    /\ \E i \in Slots : Ok(i) /\ invs[i].op = "NonDiffCrossEntropy"
    /\ \E i \in Slots : Ok(i) /\ invs[i].op = "CustomLoss"

\* C2: the cross-entropy wrappers return, for y_pred, g * (-y_true / (y_pred * N))
\* at every element, N the first dimension of y_true, and None for y_true.
C2_CrossEntropyGradient ==
    \A i \in Slots : Done(i) /\ IsCrossEntropy(invs[i].op) =>
        LET v == invs[i]
            y_pred == v.args[PredSlot(v.op)]
            y_true == v.args[TrueSlot(v.op)]
            N == y_true.shape[1]
            grad == v.res.grads[PredSlot(v.op)]
        IN /\ v.res.err = "none"
           /\ v.res.grads[TrueSlot(v.op)] = None
           /\ grad # None
           /\ Len(grad.data) = Len(y_pred.data)
           /\ \A k \in 1..Len(y_pred.data) :
                 grad.data[k] =
                     RMul(v.g.data[1],
                          RDiv(RNeg(y_true.data[k]), RMul(y_pred.data[k], R(N))))

\* both wrappers have returned a finite, nonzero gradient entry
C2_Witness ==
    \A op \in {"NonDiffCrossEntropy", "CustomLoss"} :
        \E i \in Slots :
            /\ Ok(i) /\ invs[i].op = op
            /\ invs[i].g # Scalar(R(1))
            /\ \E k \in 1..Len(invs[i].res.grads[PredSlot(op)].data) :
                  LET e == invs[i].res.grads[PredSlot(op)].data[k]
                  IN IsFinite(e) /\ e[1] # 0

\* C4: MySub on a and b of one shape returns (g * 1, g * (-alpha), None).
C4_MySubGradient ==
    \A i \in Slots : Done(i) /\ invs[i].op = "MySub"
                        /\ invs[i].args[1].shape = invs[i].args[2].shape =>
        LET v == invs[i]
            alpha == v.args[3].data[1]
            da == v.res.grads[1]
            db == v.res.grads[2]
        IN /\ v.res.err = "none"
           /\ da # None /\ db # None
           /\ da.shape = v.args[1].shape /\ db.shape = v.args[2].shape
           /\ \A k \in 1..Len(v.g.data) :
                 /\ da.data[k] = RMul(v.g.data[k], R(1))
                 /\ db.data[k] = RMul(v.g.data[k], RNeg(alpha))
           /\ v.res.grads[3] = None

C4_Witness ==
    \E i \in Slots :
        /\ Ok(i) /\ invs[i].op = "MySub"
        /\ invs[i].args[1].shape = invs[i].args[2].shape
        /\ invs[i].args[3] = Scalar(R(2))
        /\ \E k \in 1..Len(invs[i].g.data) : invs[i].res.grads[2].data[k] = R(4)

\* the arguments forward treats as constants: MySub's alpha, the labels y_true
ConstantSlot(op, j) ==
    \/ op = "MySub" /\ j = 3
    \/ IsCrossEntropy(op) /\ j = TrueSlot(op)

C6_ShapePreserved ==
    \A i \in Slots : Ok(i) =>
        \A j \in 1..Len(invs[i].res.grads) :
            invs[i].res.grads[j] # None =>
                invs[i].res.grads[j].shape = invs[i].args[j].shape

\* C7: MatrixSum returns a tensor shaped like x whose every element is g;
\* with g = 1 it is the all-ones tensor.
C7_MatrixSumGradient ==
    \A i \in Slots : Done(i) /\ invs[i].op = "MatrixSum" =>
        LET v == invs[i]
            dx == v.res.grads[1]
        IN /\ v.res.err = "none"
           /\ dx # None
           /\ dx.shape = v.args[1].shape
           /\ Len(dx.data) = Len(v.args[1].data)
           /\ \A k \in 1..Len(dx.data) : dx.data[k] = v.g.data[1]
           /\ v.g = Scalar(R(1)) => dx = Fill(v.args[1].shape, R(1))

C7_Witness ==
    /\ \E i \in Slots : Ok(i) /\ invs[i].op = "MatrixSum" /\ invs[i].g = Scalar(R(1))
                           /\ invs[i].args[1].shape = Mat
    /\ \E i \in Slots : Ok(i) /\ invs[i].op = "MatrixSum" /\ invs[i].g = Scalar(R(-2))
                           /\ invs[i].args[1].shape = Vec

\* C8: what the forward phase stored in the call's ctx is what the matching
\* backward retrieves: nothing missing, nothing of another call, nothing unused.
C8_ContextMatches ==
    \A i \in Slots :
        /\ invs[i].st # "free" =>
              /\ ctxs[i].owner = i
              /\ ctxs[i].saved \o ctxs[i].constant = invs[i].args
        /\ Done(i) =>
              /\ invs[i].res.err = "none"
              /\ invs[i].res.reads = CtxKeys(ctxs[i])

\* a MySub backward has run while another call, with other inputs, was outstanding
C8_Witness ==
    \E i \in Slots, j \in Slots :
        /\ i # j
        /\ Ok(i) /\ invs[i].op = "MySub" /\ invs[i].res.reads = {SavedKey(1), SavedKey(2), "constant"}
        /\ invs[j].st = "saved" /\ invs[j].args # invs[i].args

\* C9: the cross-entropy ops take every logarithm and every quotient by y_pred
\* of the clipped value, so neither forward nor backward yields inf or nan.
C9_CrossEntropyFinite ==
    \A i \in Slots : invs[i].st # "free" /\ IsCrossEntropy(invs[i].op) =>
        /\ LossFinite(invs[i].out)
        /\ Ok(i) => TAllFinite(invs[i].res.grads[PredSlot(invs[i].op)])

----------------------------------------------------------------------------
(* gradcheck: the Jacobian entry d out[i] / d x[j], from backward and from   *)
(* the central difference of forward                                         *)

\* gradcheck(relu, inputs, eps = 1e-6, atol = 1e-4); rtol is left at 1e-3
Eps == Fin(1, 1000000)
Atol == Fin(1, 10000)
Rtol == Fin(1, 1000)

TwoEps == RMul(R(2), Eps)

Perturb(x, j, d) ==
    T(x.shape, [k \in 1..Len(x.data) |-> IF k = j THEN RAdd(x.data[k], d) ELSE x.data[k]])

OneHot(s, i) == T(s, [k \in 1..Numel(s) |-> IF k = i THEN R(1) ELSE R(0)])

\* (f(x + eps) - f(x - eps)) / (2 * eps) at output element i
Slope(fp, fm, i) == RDiv(RSub(fp.data[i], fm.data[i]), TwoEps)

\* ln(ap) - ln(am) for 0 < am <= ap lies between (ap - am)/ap and (ap - am)/am
LnDiffLo(ap, am) ==
    IF ~LnFinite(ap) \/ ~LnFinite(am) THEN NaN ELSE RDiv(RSub(ap, am), ap)
LnDiffHi(ap, am) ==
    IF ~LnFinite(ap) \/ ~LnFinite(am) THEN NaN ELSE RDiv(RSub(ap, am), am)

\* bounds of the central difference of a loss kept as terms c * ln(a)
LossSlopeLo(fp, fm) ==
    RDiv(SumSeq([k \in 1..Len(fp.terms) |->
                   IF fp.terms[k].a = fm.terms[k].a THEN R(0)
                   ELSE IF Sign(fp.terms[k].c) < 0
                        THEN RMul(fp.terms[k].c, LnDiffHi(fp.terms[k].a, fm.terms[k].a))
                        ELSE RMul(fp.terms[k].c, LnDiffLo(fp.terms[k].a, fm.terms[k].a))]),
         TwoEps)
LossSlopeHi(fp, fm) ==
    RDiv(SumSeq([k \in 1..Len(fp.terms) |->
                   IF fp.terms[k].a = fm.terms[k].a THEN R(0)
                   ELSE IF Sign(fp.terms[k].c) < 0
                        THEN RMul(fp.terms[k].c, LnDiffLo(fp.terms[k].a, fm.terms[k].a))
                        ELSE RMul(fp.terms[k].c, LnDiffHi(fp.terms[k].a, fm.terms[k].a))]),
         TwoEps)

\* the test tensors come from torch.rand: entries in [0, 1)
UnitSeq == <<R(0), Fin(1, 2), Fin(1, 4), Fin(3, 4)>>
UnitLabelSeq == <<Fin(1, 2), R(0), Fin(1, 2)>>

UnitInputs == {Pattern(s, UnitSeq, 0) : s \in {Vec, Mat}}
UnitLabels == {Pattern(Mat, UnitLabelSeq, 0)}

\* gradcheck walks the Jacobian of one op at one input, entry by entry; a new
\* check starts when none is under way
GcFinished == gc.op = "" \/ (gc.i = gc.ni /\ gc.j = gc.nj)

Compared(op, x, slot, i, j, ni, nj, analytic, lo, hi) ==
    /\ \/ GcFinished /\ i = 1 /\ j = 1
       \/ /\ ~GcFinished
          /\ gc.op = op /\ gc.x = x /\ gc.slot = slot
          /\ IF gc.j < gc.nj THEN i = gc.i /\ j = gc.j + 1 ELSE i = gc.i + 1 /\ j = 1
    /\ gc' = [op |-> op, x |-> x, slot |-> slot, i |-> i, j |-> j, ni |-> ni, nj |-> nj,
              analytic |-> analytic, lo |-> lo, hi |-> hi]
    /\ UNCHANGED <<invs, ctxs, pc, epoch, batch, logged>>

GradcheckMyReLU ==
    \E x \in UnitInputs :
    \E i \in 1..Len(x.data), j \in 1..Len(x.data) :
        LET f == MyReLUForward(EmptyCtx, x)
            fp == MyReLUForward(EmptyCtx, Perturb(x, j, Eps)).out
            fm == MyReLUForward(EmptyCtx, Perturb(x, j, RNeg(Eps))).out
            b == MyReLUBackward(f.ctx, OneHot(f.out.shape, i))
        IN Compared("MyReLU", <<x>>, 1, i, j, Len(x.data), Len(x.data), b.grads[1].data[j],
                    Slope(fp, fm, i), Slope(fp, fm, i))

GradcheckMatrixSum ==
    \E x \in UnitInputs :
    \E j \in 1..Len(x.data) :
        LET f == MatrixSumForward(EmptyCtx, x)
            fp == MatrixSumForward(EmptyCtx, Perturb(x, j, Eps)).out
            fm == MatrixSumForward(EmptyCtx, Perturb(x, j, RNeg(Eps))).out
            b == MatrixSumBackward(f.ctx, OneHot(f.out.shape, 1))
        IN Compared("MatrixSum", <<x>>, 1, 1, j, 1, Len(x.data), b.grads[1].data[j],
                    Slope(fp, fm, 1), Slope(fp, fm, 1))

GradcheckMySub ==
    \E a \in UnitInputs, b \in UnitInputs, alpha \in Alphas, slot \in {1, 2} :
    \E i \in 1..Len(a.data), j \in 1..Len(a.data) :
        /\ a.shape = b.shape
        /\ LET out == MySubForward(a, b, alpha)
               ctx == MySubSetupContext(EmptyCtx, <<a, b, alpha>>, out)
               fp == IF slot = 1 THEN MySubForward(Perturb(a, j, Eps), b, alpha)
                                 ELSE MySubForward(a, Perturb(b, j, Eps), alpha)
               fm == IF slot = 1 THEN MySubForward(Perturb(a, j, RNeg(Eps)), b, alpha)
                                 ELSE MySubForward(a, Perturb(b, j, RNeg(Eps)), alpha)
               r == MySubBackward(ctx, OneHot(out.shape, i))
           IN Compared("MySub", <<a, b, alpha>>, slot, i, j, Len(a.data), Len(a.data), r.grads[slot].data[j],
                       Slope(fp, fm, i), Slope(fp, fm, i))

GradcheckNonDiffCrossEntropy ==
    \E A \in UnitLabels, B \in Preds :
    \E j \in 1..Len(B.data) :
        LET f == NonDiffCrossEntropyForward(EmptyCtx, A, B)
            fp == NonDiffCrossEntropyForward(EmptyCtx, A, Perturb(B, j, Eps)).out
            fm == NonDiffCrossEntropyForward(EmptyCtx, A, Perturb(B, j, RNeg(Eps))).out
            r == NonDiffCrossEntropyBackward(f.ctx, Scalar(R(1)))
        IN Compared("NonDiffCrossEntropy", <<A, B>>, 2, 1, j, 1, Len(B.data), r.grads[2].data[j],
                    LossSlopeLo(fp, fm), LossSlopeHi(fp, fm))

GradcheckCustomLoss ==
    \E A \in Preds, B \in UnitLabels :
    \E j \in 1..Len(A.data) :
        LET f == CustomLossForward(EmptyCtx, A, B)
            fp == CustomLossForward(EmptyCtx, Perturb(A, j, Eps), B).out
            fm == CustomLossForward(EmptyCtx, Perturb(A, j, RNeg(Eps)), B).out
            r == CustomLossBackward(f.ctx, Scalar(R(1)))
        IN Compared("CustomLoss", <<A, B>>, 1, 1, j, 1, Len(A.data), r.grads[1].data[j],
                    LossSlopeLo(fp, fm), LossSlopeHi(fp, fm))

NextGradcheck ==
    \/ GradcheckMyReLU
    \/ GradcheckMatrixSum
    \/ GradcheckMySub
    \/ GradcheckNonDiffCrossEntropy
    \/ GradcheckCustomLoss

SpecGradcheck == Init /\ [][NextGradcheck]_vars

\* a within atol + rtol * |n| of some n in [lo, hi]; decided without forming
\* the sum, by the bound atol + rtol * |n| <= 2 * max(atol, rtol * |n|)
AllClose(a, lo, hi) ==
    /\ IsFinite(a) /\ IsFinite(lo) /\ IsFinite(hi)
    /\ LET dist == IF RLess(a, lo) THEN RSub(lo, a)
                   ELSE IF RLess(hi, a) THEN RSub(a, hi)
                   ELSE R(0)
           m == RMax(RAbs(lo), RAbs(hi))
       IN \/ RLeq(dist, RMul(R(2), Atol))
          \/ RLeq(dist, RMul(R(2), RMul(Rtol, m)))

\* C3: for every custom op and every input with entries in [0, 1), the
\* gradient from backward equals, within the tolerance, the central
\* finite-difference slope of forward -- at MyReLU entries equal to 0 and at
\* y_pred entries below the clip bound 1e-7 too.
C3_GradcheckPasses ==
    gc.op # "" => AllClose(gc.analytic, gc.lo, gc.hi)

----------------------------------------------------------------------------
(* The MLflow-tracked run: for t in range(epochs): train, then evaluate *)

epochs == 10
\* len(train_dataloader)
NumBatches == 201

\* step = batch // 100 * (epoch + 1)
TrainStep(b, e) == (b \div 100) * (e + 1)

\* evaluate(test_dataloader, model, loss_fn, metric_fn, epoch = 0)
EvaluateEpochArg(t) == 0

LogMetric(l, name, step) == [l EXCEPT ![name] = Append(@, step)]

StartRun ==
    /\ pc = "start"
    /\ pc' = IF epochs > 0 THEN "train" ELSE "done"
    /\ epoch' = 0
    /\ batch' = 0
    /\ UNCHANGED <<invs, ctxs, gc, logged>>

\* one iteration of train's loop over the batches
TrainBatch ==
    /\ pc = "train"
    /\ batch < NumBatches
    /\ logged' = IF batch % 100 = 0
                 THEN LogMetric(LogMetric(logged, "Loss", TrainStep(batch, epoch)),
                                "Accuracy", TrainStep(batch, epoch))
                 ELSE logged
    /\ batch' = batch + 1
    /\ UNCHANGED <<invs, ctxs, gc, pc, epoch>>

TrainReturn ==
    /\ pc = "train"
    /\ batch = NumBatches
    /\ pc' = "evaluate"
    /\ UNCHANGED <<invs, ctxs, gc, epoch, batch, logged>>

\* evaluate logs once, then the epoch loop goes on
Evaluate ==
    /\ pc = "evaluate"
    /\ logged' = LogMetric(LogMetric(logged, "eval_loss", EvaluateEpochArg(epoch)),
                           "eval_accuracy", EvaluateEpochArg(epoch))
    /\ IF epoch + 1 < epochs
       THEN epoch' = epoch + 1 /\ batch' = 0 /\ pc' = "train"
       ELSE pc' = "done" /\ UNCHANGED <<epoch, batch>>
    /\ UNCHANGED <<invs, ctxs, gc>>

NextTrain ==
    \/ StartRun
    \/ TrainBatch
    \/ TrainReturn
    \/ Evaluate

SpecTrain == Init /\ [][NextTrain]_vars

\* C10: for each metric the steps passed to successive mlflow.log_metric
\* calls are strictly increasing over the run.
C10_StepsIncreasing ==
    \A m \in DOMAIN logged :
        \A a \in 1..Len(logged[m]), b \in 1..Len(logged[m]) :
            a < b => logged[m][a] < logged[m][b]

====
